---- MODULE Spec2Model ----
(***************************************************************************)
(* Task board and scheduling core of the project-management service:       *)
(* app/crud/task.py over the tables of app/db/models/task.py.              *)
(*                                                                         *)
(* The store is the three tables tasks, board_columns and                  *)
(* task_dependencies.  A table is a function from the ids of its rows to   *)
(* the rows.  Every crud function is one action: it runs in one session    *)
(* and commits once, or raises and leaves the store as it was.  Concurrent *)
(* requests are sessions that read and commit in separate steps.           *)
(***************************************************************************)
EXTENDS Integers, Sequences, FiniteSets, TLC

\* ------------------------------------------------------------ bounds
MaxTasks == 3
MaxBoardTasks == 2
MaxCols == 3
MoveCols == 2
MaxPos == 2
MaxOrder == 3
MaxGraph == 3
MaxHours == 2
MaxDeps == 2
MaxNodes == 2
MaxIsolatedHours == 5

\* ------------------------------------------------------------ values
\* Python None / SQL NULL of a nullable column.  Positions, orders and ids of
\* the model are all >= 0, so -1 is free to stand for it; as in MySQL's
\* ORDER BY ... ASC, it sorts before every number.
None == -1
\* A field left out of an update request (dict(exclude_unset=True)).
Unset == -2
\* An estimate below zero: estimated_hours is an Optional[float] that nothing
\* validates.  The hours of the model are None, this value, or >= 0.
NegativeHours == -3

Projects == {"P", "Q"}
\* The project whose tasks the model follows; columns live in both projects.
TaskProjects == {"P"}
TaskIds == 1..MaxTasks
ColIds == 1..MaxCols
Positions == 0..MaxPos
Orders == 0..MaxOrder

VARIABLES
    tasks,              \* table tasks: id -> [project_id, column_id, position,
                        \*   estimated_hours, status]
    board_columns,      \* table board_columns: id -> [project_id, order]
    task_dependencies,  \* table task_dependencies: set of <<task_id, dependency_id>>
    last,               \* the last call: [op, result]
    cpm,                \* the last critical path result: [order, path, duration, depth]
    sessions,           \* the open sessions of concurrent requests: id -> [pc, task_id,
                        \*   column_id, position, start, view]; none in a serial run
    gantt               \* the last Gantt response: a list of [id, progress, dependencies]

vars == <<tasks, board_columns, task_dependencies, last, cpm, sessions, gantt>>

\* A row of tasks as create_task stores it: the status a request leaves out
\* is "to_do".
Task(project_id, column_id, position, estimated_hours) ==
    [project_id |-> project_id, column_id |-> column_id,
     position |-> position, estimated_hours |-> estimated_hours, status |-> "to_do"]

BoardColumn(project_id, order) == [project_id |-> project_id, order |-> order]

Call(op, result) == [op |-> op, result |-> result]

NoCpm == [order |-> <<>>, path |-> <<>>, duration |-> None, depth |-> 0]

\* No Gantt response yet: a list no response equals, since None is no entry.
NoGantt == <<None>>

\* ------------------------------------------------------------ queries
Max(S) == CHOOSE x \in S : \A y \in S : y <= x
Min(S) == CHOOSE x \in S : \A y \in S : x <= y

\* db.query(Task).filter(Task.column_id == c): with c None the filter is
\* column_id IS NULL.
ColumnRows(table, c) == {u \in DOMAIN table : table[u].column_id = c}

TasksInColumn(c) == ColumnRows(tasks, c)

ColumnsOfProject(p) == {c \in DOMAIN board_columns : board_columns[c].project_id = p}

\* The index enumerate() gives task t in the rows of column c ORDER BY
\* position: the rows with a smaller position (NULL first) come before it, and
\* the rows with an equal position come before or after it (the order of ties
\* is the store's choice).
IndexChoices(c, t) ==
    LET others == TasksInColumn(c) \ {t}
        lower == Cardinality({u \in others : tasks[u].position < tasks[t].position})
        ties == Cardinality({u \in others : tasks[u].position = tasks[t].position})
    IN  lower..(lower + ties)

\* func.max(Task.position) over the rows of column c: NULLs are skipped and
\* the maximum of no value is NULL.
MaxPosition(c) ==
    LET ps == {tasks[u].position : u \in TasksInColumn(c)} \ {None}
    IN  IF ps = {} THEN None ELSE Max(ps)

\* ------------------------------------------------------------ update_task_position
\* The position the loops of update_task_position leave on a row u of the
\* target column other than the moved task.
ShiftedPosition(u, position, current_position, column_changed, len) ==
    LET p == tasks[u].position
    IN  IF position >= len THEN p
        ELSE IF column_changed
             THEN IF p >= position THEN p + 1 ELSE p
        ELSE IF position < current_position
             THEN IF position <= p /\ p < current_position THEN p + 1 ELSE p
        ELSE IF position > current_position
             THEN IF current_position < p /\ p <= position THEN p - 1 ELSE p
        ELSE p

\* The position update_task_position leaves on the moved task.
MovedPosition(task_id, position, current_position, column_changed, len) ==
    IF position >= len THEN len
    ELSE IF column_changed THEN position
    ELSE IF position # current_position THEN position
    ELSE tasks[task_id].position

\* The column update_task_position leaves on the moved task (line 157: the
\* column is assigned only when the old column is not None).
MovedColumn(old_column_id, new_column_id) ==
    IF new_column_id # old_column_id /\ old_column_id # None
    THEN new_column_id
    ELSE old_column_id

\* A comparison of an int with a None position raises TypeError: the loops
\* compare the position of every row of the target column.
MoveRaises(new_column_id, position, current_position, column_changed) ==
    /\ position < Cardinality(TasksInColumn(new_column_id))
    /\ column_changed \/ position # current_position
    /\ \E u \in TasksInColumn(new_column_id) : tasks[u].position = None

update_task_position(task_id, column_id, position) ==
    /\ UNCHANGED <<board_columns, task_dependencies, cpm, sessions, gantt>>
    /\ IF task_id \notin DOMAIN tasks
       THEN /\ last' = Call("update_task_position", "None")
            /\ UNCHANGED tasks
       ELSE LET old_column_id == tasks[task_id].column_id
                new_column_id == IF column_id # None THEN column_id ELSE old_column_id
                column_changed == new_column_id # old_column_id
                tasks_in_column == TasksInColumn(new_column_id)
                len == Cardinality(tasks_in_column)
            IN  \E current_position \in
                      (IF column_changed THEN {None}
                       ELSE IndexChoices(new_column_id, task_id)) :
                  IF MoveRaises(new_column_id, position, current_position, column_changed)
                  THEN /\ last' = Call("update_task_position", "TypeError")
                       /\ UNCHANGED tasks
                  ELSE LET new_tasks ==
                             [u \in DOMAIN tasks |->
                                IF u = task_id
                                THEN [tasks[u] EXCEPT
                                        !.column_id = MovedColumn(old_column_id, new_column_id),
                                        !.position = MovedPosition(task_id, position,
                                                        current_position, column_changed, len)]
                                ELSE IF u \in tasks_in_column
                                THEN [tasks[u] EXCEPT
                                        !.position = ShiftedPosition(u, position,
                                                        current_position, column_changed, len)]
                                ELSE tasks[u]]
                       IN  /\ \A u \in DOMAIN tasks : new_tasks[u].position <= MaxPos
                           /\ tasks' = new_tasks
                           /\ last' = Call("update_task_position", "task")

\* A request: any task id, the target column None or an existing column (the
\* foreign key of tasks.column_id), any position.
Move ==
    \E task_id \in TaskIds, column_id \in {None} \cup DOMAIN board_columns,
       position \in Positions :
        update_task_position(task_id, column_id, position)

\* ------------------------------------------------------------ boards
\* The positions of the tasks of column c are exactly 0..n-1.
DenseIn(table, c) ==
    LET rows == ColumnRows(table, c)
    IN  {table[u].position : u \in rows} = 0..(Cardinality(rows) - 1)

Dense(c) == DenseIn(tasks, c)

\* The orders of the columns of project p are exactly 0..m-1.
DenseOrders(p) ==
    LET cols == ColumnsOfProject(p)
    IN  /\ {board_columns[c].order : c \in cols} = 0..(Cardinality(cols) - 1)
        /\ \A c, d \in cols : board_columns[c].order = board_columns[d].order => c = d

\* The boards of project "P" with MoveCols columns, column c at order c - 1,
\* and any of the tasks placed densely in the columns.
DenseBoards ==
    {b \in UNION {[S -> [project_id : {"P"}, column_id : 1..MoveCols,
                         position : Positions, estimated_hours : {None}, status : {"to_do"}]] :
                  S \in SUBSET TaskIds} :
        \A c \in 1..MoveCols :
            LET rows == {u \in DOMAIN b : b[u].column_id = c}
            IN  {b[u].position : u \in rows} = 0..(Cardinality(rows) - 1)}

InitMove ==
    /\ tasks \in DenseBoards
    /\ board_columns = [c \in 1..MoveCols |-> BoardColumn("P", c - 1)]
    /\ task_dependencies = {}
    /\ last = Call("init", "None")
    /\ cpm = NoCpm
    /\ gantt = NoGantt
    /\ sessions = <<>>

\* Move calls on a dense board.
SpecMove == InitMove /\ [][Move]_vars

\* ------------------------------------------------------------ tasks
\* Python's "x or d" on an optional number: d when x is None or 0.
Or(x, d) == IF x = None \/ x = 0 THEN d ELSE x

\* uuid.uuid4(): an id no row has.
NewId(ids, used) == Min(ids \ used)

\* DefaultColumns without the ORDER BY: any other column of the project.
DefaultColumnsUnordered(project_id, excluded) ==
    ColumnsOfProject(project_id) \ {excluded}

\* The rows .order_by(BoardColumn.order).first() can return among the columns
\* of the project other than `excluded`: one with the lowest order.
DefaultColumns(project_id, excluded) ==
    LET cols == ColumnsOfProject(project_id) \ {excluded}
    IN  {c \in cols : \A d \in cols : board_columns[c].order <= board_columns[d].order}

\* .first() of that query: a row, or None when there is none.
FirstColumn(project_id, excluded) ==
    IF DefaultColumns(project_id, excluded) = {} THEN {None}
    ELSE DefaultColumns(project_id, excluded)

\* The position create_task and update_task give a task put into column c
\* without a position.
EndPosition(c) == Or(MaxPosition(c), 0) + 1

create_task(project_id, column_id, position, estimated_hours) ==
    /\ Cardinality(DOMAIN tasks) < MaxBoardTasks
    /\ \E col \in (IF column_id # None THEN {column_id}
                   ELSE FirstColumn(project_id, None)) :
          LET pos == IF position = None /\ col # None THEN EndPosition(col)
                     ELSE position
          IN  /\ pos <= MaxPos
              /\ tasks' = tasks @@ (NewId(TaskIds, DOMAIN tasks) :>
                                      Task(project_id, col, pos, estimated_hours))
    /\ last' = Call("create_task", "task")
    /\ UNCHANGED <<board_columns, task_dependencies, cpm, sessions, gantt>>

update_task(task_id, column_id, position, estimated_hours) ==
    /\ UNCHANGED <<board_columns, task_dependencies, cpm, sessions, gantt>>
    /\ IF task_id \notin DOMAIN tasks
       THEN /\ last' = Call("update_task", "None")
            /\ UNCHANGED tasks
       ELSE LET db_task == tasks[task_id]
                column_changed == column_id # Unset /\ column_id # db_task.column_id
                position_provided == position # Unset
                col == IF column_id # Unset THEN column_id ELSE db_task.column_id
                pos == IF column_changed /\ ~position_provided /\ col # None
                       THEN EndPosition(col)
                       ELSE IF position_provided THEN position ELSE db_task.position
                hours == IF estimated_hours # Unset THEN estimated_hours
                         ELSE db_task.estimated_hours
            IN  /\ pos <= MaxPos
                /\ tasks' = [tasks EXCEPT ![task_id] =
                                [db_task EXCEPT !.column_id = col, !.position = pos,
                                                !.estimated_hours = hours]]
                /\ last' = Call("update_task", "task")

\* RemainingEdges with only the first half of the WHERE clause: the edges
\* where task_id is the dependency stay.
RemainingEdgesOfOthers(task_id) == {e \in task_dependencies : e[1] # task_id}

\* task_dependencies after the DELETE ... WHERE task_id = :id OR
\* dependency_id = :id of delete_task.
RemainingEdges(task_id) ==
    {e \in task_dependencies : e[1] # task_id /\ e[2] # task_id}

delete_task(task_id) ==
    /\ UNCHANGED <<board_columns, cpm, sessions, gantt>>
    /\ IF task_id \notin DOMAIN tasks
       THEN /\ last' = Call("delete_task", "False")
            /\ UNCHANGED <<tasks, task_dependencies>>
       ELSE /\ task_dependencies' = RemainingEdges(task_id)
            /\ tasks' = [u \in DOMAIN tasks \ {task_id} |-> tasks[u]]
            /\ last' = Call("delete_task", "True")

\* ------------------------------------------------------------ update_task_schedule
\* schedule_data.dependencies left None: a list no request can send, since
\* None is no task id.
NoDependencies == <<None>>

\* ValidDependency without the comparison of the projects.
ValidDependencyAnyProject(task_id, dep_id) ==
    /\ dep_id \in DOMAIN tasks
    /\ dep_id # task_id

\* The test of line 217 on an id of the list: the task exists, is in the
\* project of task_id and is not task_id.
ValidDependency(task_id, dep_id) ==
    /\ dep_id \in DOMAIN tasks
    /\ tasks[dep_id].project_id = tasks[task_id].project_id
    /\ dep_id # task_id

\* The ids of the list that pass the test, in the order of the list: one
\* INSERT each.
Inserted(task_id, dependencies) ==
    LET Valid(d) == ValidDependency(task_id, d)
    IN  SelectSeq(dependencies, Valid)

\* Two INSERTs of the same (task_id, dependency_id): the primary key of
\* task_dependencies refuses the second.
DuplicateKey(list) == \E i, j \in 1..Len(list) : i # j /\ list[i] = list[j]

update_task_schedule(task_id, estimated_hours, dependencies) ==
    /\ UNCHANGED <<board_columns, cpm, sessions, gantt>>
    /\ IF task_id \notin DOMAIN tasks
       THEN /\ last' = Call("update_task_schedule", "None")
            /\ UNCHANGED <<tasks, task_dependencies>>
       ELSE LET inserted == Inserted(task_id, dependencies)
            IN  IF dependencies # NoDependencies /\ DuplicateKey(inserted)
                THEN /\ last' = Call("update_task_schedule", "IntegrityError")
                     /\ UNCHANGED <<tasks, task_dependencies>>
                ELSE /\ tasks' = [tasks EXCEPT ![task_id].estimated_hours =
                                     IF estimated_hours # None THEN estimated_hours ELSE @]
                     /\ task_dependencies' =
                           IF dependencies = NoDependencies THEN task_dependencies
                           ELSE {e \in task_dependencies : e[1] # task_id}
                                \cup {<<task_id, inserted[i]>> : i \in 1..Len(inserted)}
                     /\ last' = Call("update_task_schedule", "task")

\* ------------------------------------------------------------ columns
\* func.max(BoardColumn.order) over the columns of the project.
MaxOrderOf(project_id) ==
    LET os == {board_columns[c].order : c \in ColumnsOfProject(project_id)}
    IN  IF os = {} THEN None ELSE Max(os)

\* The order create_board_column gives a column created without one:
\* (max_order or -1) + 1.
EndOrder(project_id) == Or(MaxOrderOf(project_id), -1) + 1

create_board_column(project_id, order) ==
    /\ Cardinality(DOMAIN board_columns) < MaxCols
    /\ LET new_order == IF order = None THEN EndOrder(project_id) ELSE order
       IN  /\ new_order <= MaxOrder
           /\ board_columns' = board_columns @@
                  (NewId(ColIds, DOMAIN board_columns) :> BoardColumn(project_id, new_order))
    /\ last' = Call("create_board_column", "column")
    /\ UNCHANGED <<tasks, task_dependencies, cpm, sessions, gantt>>

\* The shift without the filter on the project.
ShiftedOrderAnyProject(c, column_id, old_order, new_order) ==
    LET o == board_columns[c].order
    IN  IF c = column_id THEN new_order
        ELSE IF new_order > old_order /\ o > old_order /\ o <= new_order THEN o - 1
        ELSE IF new_order < old_order /\ o >= new_order /\ o < old_order THEN o + 1
        ELSE o

\* The order update_board_column leaves on column c when column_id goes from
\* old_order to new_order.
ShiftedOrder(c, column_id, old_order, new_order) ==
    LET o == board_columns[c].order
        same == board_columns[c].project_id = board_columns[column_id].project_id
    IN  IF c = column_id THEN new_order
        ELSE IF same /\ new_order > old_order /\ o > old_order /\ o <= new_order THEN o - 1
        ELSE IF same /\ new_order < old_order /\ o >= new_order /\ o < old_order THEN o + 1
        ELSE o

update_board_column(column_id, order) ==
    /\ UNCHANGED <<tasks, task_dependencies, cpm, sessions, gantt>>
    /\ IF column_id \notin DOMAIN board_columns
       THEN /\ last' = Call("update_board_column", "None")
            /\ UNCHANGED board_columns
       ELSE LET old_order == board_columns[column_id].order
                new_columns ==
                    IF order # Unset /\ order # old_order
                    THEN [c \in DOMAIN board_columns |->
                            [board_columns[c] EXCEPT
                               !.order = ShiftedOrder(c, column_id, old_order, order)]]
                    ELSE board_columns
            IN  /\ \A c \in DOMAIN board_columns : new_columns[c].order <= MaxOrder
                /\ board_columns' = new_columns
                /\ last' = Call("update_board_column", "column")

\* The row delete_board_column leaves for task u when column_id is deleted
\* with default_column (None when the project has no other column).
Rehomed(u, column_id, default_column) ==
    IF tasks[u].column_id = column_id
    THEN [tasks[u] EXCEPT !.column_id = default_column, !.position = None]
    ELSE tasks[u]

\* delete_board_column that answers True for a column that is not there.
delete_board_column_idempotent(column_id) ==
    /\ UNCHANGED <<task_dependencies, cpm, sessions, gantt>>
    /\ IF column_id \notin DOMAIN board_columns
       THEN /\ last' = Call("delete_board_column", "True")
            /\ UNCHANGED <<tasks, board_columns>>
       ELSE LET project_id == board_columns[column_id].project_id
                order == board_columns[column_id].order
            IN  /\ \E default_column \in FirstColumn(project_id, column_id) :
                      tasks' = [u \in DOMAIN tasks |-> Rehomed(u, column_id, default_column)]
                /\ board_columns' =
                      [c \in DOMAIN board_columns \ {column_id} |->
                         IF board_columns[c].project_id = project_id
                            /\ board_columns[c].order > order
                         THEN [board_columns[c] EXCEPT !.order = @ - 1]
                         ELSE board_columns[c]]
                /\ last' = Call("delete_board_column", "True")

delete_board_column(column_id) ==
    /\ UNCHANGED <<task_dependencies, cpm, sessions, gantt>>
    /\ IF column_id \notin DOMAIN board_columns
       THEN /\ last' = Call("delete_board_column", "False")
            /\ UNCHANGED <<tasks, board_columns>>
       ELSE LET project_id == board_columns[column_id].project_id
                order == board_columns[column_id].order
            IN  /\ \E default_column \in FirstColumn(project_id, column_id) :
                      tasks' = [u \in DOMAIN tasks |-> Rehomed(u, column_id, default_column)]
                /\ board_columns' =
                      [c \in DOMAIN board_columns \ {column_id} |->
                         IF board_columns[c].project_id = project_id
                            /\ board_columns[c].order > order
                         THEN [board_columns[c] EXCEPT !.order = @ - 1]
                         ELSE board_columns[c]]
                /\ last' = Call("delete_board_column", "True")

\* ------------------------------------------------------------ calculate_critical_path
\* Task.dependencies of task t, as a set of ids.
Deps(t) == {e[2] : e \in {e \in task_dependencies : e[1] = t}}

\* Hours with "or 1" in place of "or 0".
HoursOrOne(t) == Or(tasks[t].estimated_hours, 1)

\* task.estimated_hours or 0
Hours(t) == Or(tasks[t].estimated_hours, 0)

TasksOfProject(p) == {t \in DOMAIN tasks : tasks[t].project_id = p}

\* The lists a query without ORDER BY can return for the rows S.
Perms(S) ==
    {s \in [1..Cardinality(S) -> S] : \A i, j \in 1..Cardinality(S) : s[i] = s[j] => i = j}

\* Forward pass after the first i tasks of `order`: est and eft start at 0 for
\* every task, so "dep.id not in eft" never holds and calculate_forward reads
\* the eft its dependencies have at that moment.
RECURSIVE Forward(_, _)
Forward(order, i) ==
    IF i = 0
    THEN [est |-> [t \in {order[k] : k \in 1..Len(order)} |-> 0],
          eft |-> [t \in {order[k] : k \in 1..Len(order)} |-> 0]]
    ELSE LET prev == Forward(order, i - 1)
             t == order[i]
             max_dep_eft == Max({0} \cup {prev.eft[d] : d \in Deps(t)})
         IN  IF prev.eft[t] = 0
             THEN [est |-> [prev.est EXCEPT ![t] = max_dep_eft],
                   eft |-> [prev.eft EXCEPT ![t] = max_dep_eft + Hours(t)]]
             ELSE prev

\* dependent_tasks[t]: the tasks that list t as a dependency.
Dependents(t, ids) == {u \in ids : t \in Deps(u)}

\* end_tasks: the tasks no task depends on, or every task when there is none.
EndTasks(ids) ==
    LET ends == {t \in ids : Dependents(t, ids) = {}}
    IN  IF ends = {} THEN ids ELSE ends

\* Backward pass after the first i tasks of `order`: lst starts at
\* project_completion, the end tasks get lft - hours, and calculate_backward
\* reads the lst its dependent tasks have at that moment.
RECURSIVE Backward(_, _, _)
Backward(order, i, project_completion) ==
    LET ids == {order[k] : k \in 1..Len(order)}
    IN  IF i = 0
        THEN [t \in ids |-> IF t \in EndTasks(ids)
                            THEN project_completion - Hours(t)
                            ELSE project_completion]
        ELSE LET prev == Backward(order, i - 1, project_completion)
                 t == order[i]
                 min_dep_lst ==
                     Min({project_completion} \cup {prev[u] : u \in Dependents(t, ids)})
             IN  IF Dependents(t, ids) # {}
                 THEN [prev EXCEPT ![t] = min_dep_lst - Hours(t)]
                 ELSE prev

\* A call of topologically_sort: one more frame on the stack; deepest is the
\* highest the stack has been.
Enter(st) ==
    [st EXCEPT !.depth = @ + 1, !.deepest = IF st.depth + 1 > @ THEN st.depth + 1 ELSE @]

\* Return that leaves the frame on the stack.
ReturnKeepsFrame(st) == st

\* The return of that call: its frame is gone.
Return(st) == [st EXCEPT !.depth = @ - 1]

\* The call that does not record the task as visited.
VisitForgets(st, t) == st

\* visited.add(task_id)
Visit(st, t) == [st EXCEPT !.visited = @ \cup {t}]

\* topologically_sort(t) on the state st = [visited, path, depth, deepest];
\* deps is the order in which the dependency lists are loaded.
RECURSIVE TopologicallySort(_, _, _, _), SortDependencies(_, _, _, _, _)
TopologicallySort(t, st, critical_path, deps) ==
    IF t \in st.visited THEN Return(Enter(st))
    ELSE LET IsDep(d) == d \in Deps(t)
             after == SortDependencies(SelectSeq(deps, IsDep), 1,
                          Visit(Enter(st), t), critical_path, deps)
         IN  Return(IF t \in critical_path
                    THEN [after EXCEPT !.path = Append(@, t)]
                    ELSE after)

SortDependencies(list, i, st, critical_path, deps) ==
    IF i > Len(list) THEN st
    ELSE SortDependencies(list, i + 1,
             IF list[i] \in critical_path
             THEN TopologicallySort(list[i], st, critical_path, deps)
             ELSE st,
             critical_path, deps)

\* The loop over critical_path (a list in the order of the tasks).
RECURSIVE SortAll(_, _, _, _, _)
SortAll(order, i, st, critical_path, deps) ==
    IF i > Len(order) THEN st
    ELSE SortAll(order, i + 1,
             IF order[i] \in critical_path /\ order[i] \notin st.visited
             THEN TopologicallySort(order[i], st, critical_path, deps)
             ELSE st,
             critical_path, deps)

\* The (path, duration) calculate_critical_path returns when the query gives
\* the tasks as `order` and the dependency lists in the order `deps`, and the
\* depth its nested calls reach: calculate_forward and calculate_backward are
\* called from the loops only (depth 1), topologically_sort calls itself.
CriticalPath(order, deps) ==
    LET ids == {order[k] : k \in 1..Len(order)}
        n == Len(order)
    IN  IF \A t \in ids : Hours(t) = 0
        THEN [path |-> <<>>, duration |-> 0, depth |-> 0]
        ELSE IF \A t \in ids : Deps(t) # {}
        THEN [path |-> <<>>, duration |-> 0, depth |-> 0]
        ELSE LET fwd == Forward(order, n)
                 project_completion == Max({fwd.eft[t] : t \in ids})
                 lst == Backward(order, n, project_completion)
                 critical_path == {t \in ids : lst[t] - fwd.est[t] = 0 /\ Hours(t) > 0}
                 sorted == SortAll(order, 1,
                               [visited |-> {}, path |-> <<>>, depth |-> 0, deepest |-> 1],
                               critical_path, deps)
             IN  [path |-> sorted.path, duration |-> project_completion,
                  depth |-> sorted.deepest]

\* The orders of the dependency lists that can differ: one order when no task
\* has two dependencies.
DepOrders(ids) ==
    IF \E t \in ids : Cardinality(Deps(t)) > 1 THEN Perms(ids)
    ELSE {CHOOSE s \in Perms(ids) : TRUE}

calculate_critical_path(project_id, order, deps) ==
    /\ cpm' = [order |-> order] @@ CriticalPath(order, deps)
    /\ last' = Call("calculate_critical_path", "tuple")
    /\ UNCHANGED <<tasks, board_columns, task_dependencies, sessions, gantt>>

\* ------------------------------------------------------------ concurrent requests
\* IndexChoices on the rows a session loaded.
ViewIndexChoices(view, c, t) ==
    LET others == ColumnRows(view, c) \ {t}
        lower == Cardinality({u \in others : view[u].position < view[t].position})
        ties == Cardinality({u \in others : view[u].position = view[t].position})
    IN  lower..(lower + ties)

\* update_task_position run on the rows `view` of its session: the results it
\* can return, each with the rows as the session holds them before commit.
MoveOutcomes(view, task_id, column_id, position) ==
    IF task_id \notin DOMAIN view THEN {[result |-> "None", table |-> view]}
    ELSE LET old_column_id == view[task_id].column_id
             new_column_id == IF column_id # None THEN column_id ELSE old_column_id
             column_changed == new_column_id # old_column_id
             tasks_in_column == ColumnRows(view, new_column_id)
             len == Cardinality(tasks_in_column)
             raises(current_position) ==
                 /\ position < len
                 /\ column_changed \/ position # current_position
                 /\ \E u \in tasks_in_column : view[u].position = None
             shifted(p, current_position) ==
                 IF position >= len THEN p
                 ELSE IF column_changed
                      THEN IF p >= position THEN p + 1 ELSE p
                 ELSE IF position < current_position
                      THEN IF position <= p /\ p < current_position THEN p + 1 ELSE p
                 ELSE IF position > current_position
                      THEN IF current_position < p /\ p <= position THEN p - 1 ELSE p
                 ELSE p
             moved(current_position) ==
                 IF position >= len THEN len
                 ELSE IF column_changed THEN position
                 ELSE IF position # current_position THEN position
                 ELSE view[task_id].position
             table(current_position) ==
                 [u \in DOMAIN view |->
                    IF u = task_id
                    THEN [view[u] EXCEPT
                            !.column_id = MovedColumn(old_column_id, new_column_id),
                            !.position = moved(current_position)]
                    ELSE IF u \in tasks_in_column
                    THEN [view[u] EXCEPT !.position = shifted(view[u].position, current_position)]
                    ELSE view[u]]
         IN  {IF raises(current_position)
              THEN [result |-> "TypeError", table |-> view]
              ELSE [result |-> "task", table |-> table(current_position)] :
                 current_position \in (IF column_changed THEN {None}
                                       ELSE ViewIndexChoices(view, new_column_id, task_id))}

\* Flush that writes every loaded row back as the session holds it.
FlushEveryRow(current, view, table) ==
    [u \in DOMAIN current |-> IF u \in DOMAIN table THEN table[u] ELSE current[u]]

\* The table after db.commit(): the flush sends an UPDATE for the attributes
\* the session changed, with the value the session computed, and leaves every
\* other attribute as the store has it.
Flush(current, view, table) ==
    [u \in DOMAIN current |->
        IF u \in DOMAIN view
        THEN [current[u] EXCEPT
                !.column_id = IF table[u].column_id # view[u].column_id
                              THEN table[u].column_id ELSE @,
                !.position = IF table[u].position # view[u].position
                             THEN table[u].position ELSE @]
        ELSE current[u]]

SessionIds == {1, 2}

\* The session of a request update_task_position(task_id, column_id, position)
\* that arrives when the table is `start`.
Session(task_id, column_id, position, start) ==
    [pc |-> "request", task_id |-> task_id, column_id |-> column_id,
     position |-> position, start |-> start, view |-> start, result |-> "pending"]

\* SessionView that reads the table again at commit.
SessionViewFresh(s) == tasks

\* The rows session s works on: the ones its queries loaded.
SessionView(s) == sessions[s].view

\* The queries of update_task_position (get_task_by_id, tasks_in_column) in
\* session s: one consistent read of the table.
query(s) ==
    /\ sessions[s].pc = "request"
    /\ sessions' = [sessions EXCEPT ![s].pc = "read", ![s].view = tasks]
    /\ UNCHANGED <<tasks, board_columns, task_dependencies, last, cpm, gantt>>

\* The rest of update_task_position in session s, up to db.commit().
commit(s) ==
    /\ sessions[s].pc = "read"
    /\ \E o \in MoveOutcomes(SessionView(s), sessions[s].task_id,
                              sessions[s].column_id, sessions[s].position) :
          /\ tasks' = Flush(tasks, SessionView(s), o.table)
          /\ sessions' = [sessions EXCEPT ![s].pc = "done", ![s].result = o.result]
          /\ last' = Call("update_task_position", o.result)
    /\ UNCHANGED <<board_columns, task_dependencies, cpm, gantt>>

\* ------------------------------------------------------------ requests
\* A target column of a request: None or an existing column (the foreign key
\* of tasks.column_id).
TargetColumns == {None} \cup DOMAIN board_columns

CreateTask ==
    \E project_id \in TaskProjects, column_id \in TargetColumns,
       position \in {None} \cup Positions :
        create_task(project_id, column_id, position, None)

UpdateTask ==
    \E task_id \in TaskIds, column_id \in {Unset} \cup TargetColumns,
       position \in {Unset, None} \cup Positions :
        update_task(task_id, column_id, position, Unset)

DeleteTask == \E task_id \in TaskIds : delete_task(task_id)

CreateColumn ==
    \E project_id \in Projects, order \in {None} \cup Orders :
        create_board_column(project_id, order)

UpdateColumn ==
    \E column_id \in ColIds, order \in {Unset} \cup Orders :
        update_board_column(column_id, order)

DeleteColumn == \E column_id \in ColIds : delete_board_column(column_id)

\* A task of either project, outside the board.
CreateProjectTask ==
    \E project_id \in Projects : create_task(project_id, None, None, None)

\* The lists of up to n elements of S.
Lists(S, n) == UNION {[1..k -> S] : k \in 0..n}

UpdateSchedule ==
    \E task_id \in TaskIds, estimated_hours \in {None, MaxHours},
       dependencies \in {NoDependencies} \cup Lists(TaskIds, MaxDeps) :
        update_task_schedule(task_id, estimated_hours, dependencies)

Compute ==
    \E project_id \in TaskProjects :
        \E order \in Perms(TasksOfProject(project_id)),
           deps \in DepOrders(TasksOfProject(project_id)) :
            calculate_critical_path(project_id, order, deps)

\* ------------------------------------------------------------ specifications
\* Column calls on a store without columns and without tasks.
InitColumns ==
    /\ tasks = <<>>
    /\ board_columns = <<>>
    /\ task_dependencies = {}
    /\ last = Call("init", "None")
    /\ cpm = NoCpm
    /\ gantt = NoGantt
    /\ sessions = <<>>

NextColumns == CreateColumn \/ UpdateColumn \/ DeleteColumn

SpecColumns == InitColumns /\ [][NextColumns]_vars

\* The boards without tasks: every column id in use, each column in one of
\* the projects, the orders of each project's columns dense.
EmptyBoards ==
    {b \in [ColIds -> [project_id : Projects, order : 0..(MaxCols - 1)]] :
        \A p \in Projects :
            LET cols == {c \in ColIds : b[c].project_id = p}
            IN  /\ {b[c].order : c \in cols} = 0..(Cardinality(cols) - 1)
                /\ \A c, d \in cols : b[c].order = b[d].order => c = d}

InitBoard ==
    /\ tasks = <<>>
    /\ board_columns \in EmptyBoards
    /\ task_dependencies = {}
    /\ last = Call("init", "None")
    /\ cpm = NoCpm
    /\ gantt = NoGantt
    /\ sessions = <<>>

\* Task calls and column deletion on a board that starts without tasks.
NextBoard == CreateTask \/ Move \/ DeleteTask \/ DeleteColumn

SpecBoard == InitBoard /\ [][NextBoard]_vars

\* The boards on which a column is deleted: every column id in use, column 1
\* in project "P" and each other column in one of the projects, at any order
\* (ties included); MaxBoardTasks tasks of project "P", numbered in the order
\* of their columns, each in a column or in none, at position 0.
InitDelete ==
    /\ board_columns \in {b \in [ColIds -> [project_id : Projects, order : 0..(MaxCols - 1)]] :
                              b[1].project_id = "P"}
    /\ tasks \in {b \in [1..MaxBoardTasks ->
                            [project_id : TaskProjects, column_id : {None} \cup ColIds,
                             position : {0}, estimated_hours : {None}, status : {"to_do"}]] :
                     \A u, v \in 1..MaxBoardTasks :
                         u <= v => b[u].column_id <= b[v].column_id}
    /\ task_dependencies = {}
    /\ last = Call("init", "None")
    /\ cpm = NoCpm
    /\ gantt = NoGantt
    /\ sessions = <<>>

\* Column deletions on a board with tasks.
SpecDelete == InitDelete /\ [][DeleteColumn]_vars

\* A board of project "P" with columns 1 and 2 and task 1 in column 1: the
\* other ids of TaskIds and ColIds are not in the store.
InitLookup ==
    /\ tasks = (1 :> Task("P", 1, 0, None))
    /\ board_columns = (1 :> BoardColumn("P", 0)) @@ (2 :> BoardColumn("P", 1))
    /\ task_dependencies = {}
    /\ last = Call("init", "None")
    /\ cpm = NoCpm
    /\ gantt = NoGantt
    /\ sessions = <<>>

\* Moves, column updates and column deletions with any id, in the store or
\* not.
NextLookup == Move \/ UpdateColumn \/ DeleteColumn

SpecLookup == InitLookup /\ [][NextLookup]_vars

\* Every mutation of the board.
Next == CreateTask \/ UpdateTask \/ DeleteTask \/ Move \/ DeleteColumn

Spec == InitBoard /\ [][Next]_vars

\* ------------------------------------------------------------ schedules
\* The edges the schedule update can store between the tasks ids: a task
\* never depends on itself.
Edges(ids) == {e \in ids \X ids : e[1] # e[2]}

\* The schedule of a project: the hours of its tasks and its edges.
Schedule(hours, edges) ==
    [tasks |-> [t \in DOMAIN hours |-> Task("P", None, None, hours[t])],
     edges |-> edges]

\* The linear chain: task 1 (2 h), task 2 (3 h) depends on 1, task 3 (4 h)
\* depends on 2.
Chain == Schedule(<<2, 3, 4>>, {<<2, 1>>, <<3, 2>>})

\* The diamond: task 1 (1 h); tasks 2 (5 h) and 3 (2 h) depend on 1; task 4
\* (1 h) depends on 2 and 3.
Diamond == Schedule(<<1, 5, 2, 1>>, {<<2, 1>>, <<3, 1>>, <<4, 2>>, <<4, 3>>})

\* Every schedule of up to MaxGraph tasks with hours None or 0..MaxHours.
SmallSchedules ==
    UNION {{Schedule(h, e) : h \in [1..n -> {None} \cup 0..MaxHours],
                             e \in SUBSET Edges(1..n)} : n \in 1..MaxGraph}

InitCPM ==
    /\ \E s \in {Chain, Diamond} \cup SmallSchedules :
          /\ tasks = s.tasks
          /\ task_dependencies = s.edges
    /\ board_columns = <<>>
    /\ last = Call("init", "None")
    /\ cpm = NoCpm
    /\ gantt = NoGantt
    /\ sessions = <<>>

\* Critical path requests on a project with a schedule.
SpecCPM == InitCPM /\ [][Compute]_vars

\* Every schedule of up to MaxNodes tasks whose hours are None, 0, below zero
\* or MaxHours.
SmallProjects ==
    UNION {{Schedule(h, e) : h \in [1..n -> {None, 0, NegativeHours, MaxHours}],
                             e \in SUBSET Edges(1..n)} : n \in 1..MaxNodes}

InitProject ==
    /\ \E s \in SmallProjects :
          /\ tasks = s.tasks
          /\ task_dependencies = s.edges
    /\ board_columns = <<>>
    /\ last = Call("init", "None")
    /\ cpm = NoCpm
    /\ gantt = NoGantt
    /\ sessions = <<>>

\* Critical path requests on a small project with any hours.
SpecProject == InitProject /\ [][Compute]_vars

\* Two isolated tasks of 3 and 5 hours.
Isolated == Schedule(<<3, 5>>, {})

\* Every schedule without edges of up to MaxNodes tasks, the one of 3 and 5
\* hours among them.
IsolatedSchedules ==
    UNION {{Schedule(h, {}) :
               h \in [1..n -> {None, NegativeHours} \cup 0..MaxIsolatedHours]} :
           n \in 1..MaxNodes}

InitIsolated ==
    /\ \E s \in IsolatedSchedules :
          /\ tasks = s.tasks
          /\ task_dependencies = s.edges
    /\ board_columns = <<>>
    /\ last = Call("init", "None")
    /\ cpm = NoCpm
    /\ gantt = NoGantt
    /\ sessions = <<>>

\* Critical path requests on a project without dependencies.
SpecIsolated == InitIsolated /\ [][Compute]_vars

\* Schedule updates, deletions and creations on tasks of both projects: at
\* first every task id is in use, the last one in project "Q" and the others
\* in project "P", without edges.
InitSchedule ==
    /\ tasks = [t \in TaskIds |->
                  Task(IF t = MaxTasks THEN "Q" ELSE "P", None, None, None)]
    /\ task_dependencies = {}
    /\ board_columns = <<>>
    /\ last = Call("init", "None")
    /\ cpm = NoCpm
    /\ gantt = NoGantt
    /\ sessions = <<>>

NextSchedule == CreateProjectTask \/ UpdateSchedule \/ DeleteTask

SpecSchedule == InitSchedule /\ [][NextSchedule]_vars

\* Any of the tasks 1..MaxTasks in project "P", with any set of edges between
\* them.
InitGraph ==
    /\ \E S \in SUBSET TaskIds :
          /\ tasks = [t \in S |-> Task("P", None, None, None)]
          /\ task_dependencies \in SUBSET Edges(S)
    /\ board_columns = <<>>
    /\ last = Call("init", "None")
    /\ cpm = NoCpm
    /\ gantt = NoGantt
    /\ sessions = <<>>

\* Task deletions on a project with dependencies.
SpecGraph == InitGraph /\ [][DeleteTask]_vars

\* The pairs <<t, d>> with a path of edges from t to d.
RECURSIVE Closure(_)
Closure(R) ==
    LET step == R \cup {<<p[1][1], p[2][2]>> : p \in {q \in R \X R : q[1][2] = q[2][1]}}
    IN  IF step = R THEN R ELSE Closure(step)

\* No task depends on itself, directly or through other tasks.
Acyclic(edges) == \A e \in Closure(edges) : e[1] # e[2]

\* The boards of project "P" with tasks 1 and 2, and any of the other tasks
\* up to MaxBoardTasks: each task placed densely in one of the columns
\* 1..MoveCols, or in no column and without a position.
RaceBoards ==
    {b \in UNION {[S -> [project_id : {"P"}, column_id : {None} \cup (1..MoveCols),
                         position : {None} \cup Positions, estimated_hours : {None}, status : {"to_do"}]] :
                  S \in {S \in SUBSET (1..MaxBoardTasks) : SessionIds \subseteq S}} :
        /\ \A u \in DOMAIN b : b[u].column_id = None <=> b[u].position = None
        /\ \A c \in 1..MoveCols :
              LET rows == {u \in DOMAIN b : b[u].column_id = c}
              IN  {b[u].position : u \in rows} = 0..(Cardinality(rows) - 1)}

\* Two requests arrive at such a board: session s moves task s.
InitRace ==
    /\ tasks \in RaceBoards
    /\ board_columns = [c \in 1..MoveCols |-> BoardColumn("P", c - 1)]
    /\ task_dependencies = {}
    /\ last = Call("init", "None")
    /\ cpm = NoCpm
    /\ gantt = NoGantt
    /\ sessions \in [SessionIds -> [pc : {"request"}, task_id : SessionIds,
                                     column_id : {None} \cup (1..MoveCols),
                                     position : Positions, start : {tasks},
                                     view : {tasks}, result : {"pending"}]]
    /\ \A s \in SessionIds : sessions[s].task_id = s

NextRace == \E s \in SessionIds : query(s) \/ commit(s)

\* Two update_task_position requests whose sessions interleave.
SpecRace == InitRace /\ [][NextRace]_vars

\* The column session s puts its task into, and the column the task starts in.
Target(s) ==
    IF sessions[s].column_id # None THEN sessions[s].column_id
    ELSE sessions[s].start[sessions[s].task_id].column_id

Source(s) == sessions[s].start[sessions[s].task_id].column_id

\* Both sessions committed.
BothDone == \A s \in SessionIds : sessions[s].pc = "done"

\* Each session read the table before the other committed.
Overlapped == \A s \in SessionIds : sessions[s].view = sessions[s].start

\* The tables the two requests can leave when session `first` runs alone and
\* session `second` runs after it.
SerialTables(first, second) ==
    UNION {{o2.table : o2 \in MoveOutcomes(o1.table, sessions[second].task_id,
                                   sessions[second].column_id, sessions[second].position)} :
           o1 \in MoveOutcomes(sessions[first].start, sessions[first].task_id,
                               sessions[first].column_id, sessions[first].position)}

\* The table is the result of one of the two serial executions.
Serializable == tasks \in SerialTables(1, 2) \cup SerialTables(2, 1)

\* ------------------------------------------------------------ properties
\* C1: on a board that starts dense, after any sequence of
\* update_task_position calls the positions of the tasks of every column are
\* exactly 0..n-1.
C1_MoveKeepsDense == \A c \in DOMAIN board_columns : Dense(c)

\* C2: after any sequence of create_board_column, update_board_column and
\* delete_board_column calls on a project that starts without columns, the
\* orders of the columns of every project are exactly 0..m-1.
C2_ColumnOrdersDense == \A p \in Projects : DenseOrders(p)

\* C3: moving task t from a dense column A to another dense column B at
\* position p leaves A with a-1 tasks at 0..a-2, B with b+1 tasks at 0..b, and
\* t at p, or at b when p > b.
C3_CrossColumnMove ==
    [][\A t \in DOMAIN tasks, B \in DOMAIN board_columns, p \in Positions :
          LET A == tasks[t].column_id
              a == Cardinality(TasksInColumn(A))
              b == Cardinality(TasksInColumn(B))
          IN  (/\ A # None /\ A # B /\ Dense(A) /\ Dense(B)
               /\ update_task_position(t, B, p))
              => /\ Cardinality(ColumnRows(tasks', A)) = a - 1
                 /\ Cardinality(ColumnRows(tasks', B)) = b + 1
                 /\ DenseIn(tasks', A) /\ DenseIn(tasks', B)
                 /\ tasks'[t].column_id = B
                 /\ tasks'[t].position = (IF p > b THEN b ELSE p)]_vars

\* C4: after every mutation of the board (create_task, update_task,
\* delete_task, update_task_position, delete_board_column) the positions of
\* the tasks of every column are exactly 0..n-1.
C4_DenseAfterEveryMutation ==
    last.op # "init" => \A c \in DOMAIN board_columns : Dense(c)

\* C5: delete_board_column(c) leaves no task in column c, and puts every task
\* that was in c into a remaining column of c's project whose order is the
\* lowest, or into no column when c's project has no other column.
C5_DeleteRehomes ==
    [][\A c \in DOMAIN board_columns :
          delete_board_column(c) =>
              LET others == ColumnsOfProject(board_columns[c].project_id) \ {c}
              IN  /\ \A u \in DOMAIN tasks' : tasks'[u].column_id # c
                  /\ DOMAIN tasks' = DOMAIN tasks
                  /\ \A u \in TasksInColumn(c) :
                        IF others = {} THEN tasks'[u].column_id = None
                        ELSE /\ tasks'[u].column_id \in others
                             /\ \A d \in others :
                                   board_columns[tasks'[u].column_id].order
                                       <= board_columns[d].order]_vars

\* C5 witness: a column was deleted, and a task it held now sits in the
\* lower of two remaining columns of that project.
C5_Witness ==
    /\ last = Call("delete_board_column", "True")
    /\ \E u \in DOMAIN tasks :
          /\ tasks[u].position = None
          /\ tasks[u].column_id \in DOMAIN board_columns
          /\ \E d \in ColumnsOfProject(board_columns[tasks[u].column_id].project_id) :
                board_columns[d].order > board_columns[tasks[u].column_id].order

\* C6: for the chain 1 -> 2 -> 3 with 2, 3 and 4 hours,
\* calculate_critical_path returns the path <<1, 2, 3>> and the duration 9,
\* in whatever order the query returns the tasks.
C6_ChainPath ==
    (tasks = Chain.tasks /\ task_dependencies = Chain.edges /\ cpm # NoCpm)
        => (cpm.path = <<1, 2, 3>> /\ cpm.duration = 9)

\* C7: for the diamond (1 alone, 2 and 3 after 1, 4 after 2 and 3; 1, 5, 2 and
\* 1 hours) calculate_critical_path returns the duration 7 and the path
\* <<1, 2, 4>>.
C7_DiamondPath ==
    (tasks = Diamond.tasks /\ task_dependencies = Diamond.edges /\ cpm # NoCpm)
        => (cpm.duration = 7 /\ cpm.path = <<1, 2, 4>>)

\* C8: in every state create_task, update_task_position, delete_task and
\* delete_board_column lead to, update_task_position on an existing task
\* returns the task, and on an unknown id returns None; it has no other
\* outcome.
C8_MoveTotal ==
    [][\A t \in TaskIds, c \in TargetColumns, p \in Positions :
          update_task_position(t, c, p) =>
              last'.result = (IF t \in DOMAIN tasks THEN "task" ELSE "None")]_vars

\* C9: update_task_position of a task to its own column (named, or left None)
\* and its own position changes no task.
C9_MoveToOwnPlace ==
    [][\A t \in DOMAIN tasks :
          \A c \in {None, tasks[t].column_id} :
              (tasks[t].position # None /\ update_task_position(t, c, tasks[t].position))
                  => tasks' = tasks]_vars

\* C10: create_board_column without an order gives the new column the highest
\* order of the project's columns plus 1, or 0 when the project has none, so an
\* order no column of the project has.
C10_CreateColumnAtEnd ==
    [][\A p \in Projects :
          create_board_column(p, None) =>
              LET new == CHOOSE c \in DOMAIN board_columns' : c \notin DOMAIN board_columns
                  orders == {board_columns[c].order : c \in ColumnsOfProject(p)}
              IN  /\ board_columns'[new].order = (IF orders = {} THEN 0 ELSE Max(orders) + 1)
                  /\ board_columns'[new].order \notin orders]_vars

\* C11: after any sequence of update_task_schedule calls the dependency graph
\* has no cycle and no edge from a task to itself.
C11_GraphAcyclic == Acyclic(task_dependencies)

\* C12: after any sequence of create_task, update_task_schedule and
\* delete_task calls every edge <<t, d>> joins two existing tasks of the same
\* project, and t # d.
C12_EdgesInProject ==
    \A e \in task_dependencies :
        /\ e[1] \in DOMAIN tasks
        /\ e[2] \in DOMAIN tasks
        /\ tasks[e[1]].project_id = tasks[e[2]].project_id
        /\ e[1] # e[2]

\* C12 witness: a schedule update stored an edge while a task of the other
\* project exists.
C12_Witness ==
    /\ last = Call("update_task_schedule", "task")
    /\ \E e \in task_dependencies, u \in DOMAIN tasks :
          tasks[u].project_id # tasks[e[1]].project_id

\* C13: delete_task(T) on an existing task leaves exactly the edges in which T
\* does not appear: none with T as the dependent or as the dependency, and
\* every edge between other tasks as it was.
C13_DeleteRemovesEdges ==
    [][\A T \in DOMAIN tasks :
          delete_task(T) =>
              /\ \A e \in task_dependencies' : e[1] # T /\ e[2] # T
              /\ \A e \in Edges(TaskIds) :
                    (e[1] # T /\ e[2] # T)
                        => (e \in task_dependencies' <=> e \in task_dependencies)]_vars

\* C13 witness: a task was deleted and an edge between two other tasks is
\* still there.
C13_Witness ==
    /\ last = Call("delete_task", "True")
    /\ task_dependencies # {}
    /\ Cardinality(DOMAIN tasks) < MaxTasks

\* The estimate of task t as a duration: no estimate counts as 0.
Duration(t) == IF tasks[t].estimated_hours = None THEN 0 ELSE tasks[t].estimated_hours

\* C14: on a project in which no task has a positive estimate, or in which
\* every task has a dependency, calculate_critical_path returns the empty
\* path and the duration 0.
C14_EmptyResult ==
    (/\ cpm # NoCpm
     /\ \/ \A t \in DOMAIN tasks : Duration(t) <= 0
        \/ \A t \in DOMAIN tasks : Deps(t) # {})
        => (cpm.path = <<>> /\ cpm.duration = 0)

\* C15: on a project without edges calculate_critical_path returns the largest
\* duration of a task, and as the path exactly the tasks that have this
\* duration when it is positive, each once; for two isolated tasks of 3 and 5
\* hours it returns <<the task of 5>> and 5.
C15_IsolatedTasks ==
    (cpm # NoCpm /\ task_dependencies = {})
        => LET largest == Max({Duration(t) : t \in DOMAIN tasks})
               longest == {t \in DOMAIN tasks : Duration(t) = largest /\ largest > 0}
           IN  /\ cpm.duration = largest
               /\ {cpm.path[i] : i \in 1..Len(cpm.path)} = longest
               /\ Len(cpm.path) = Cardinality(longest)
               /\ tasks = Isolated.tasks => (cpm.path = <<2>> /\ cpm.duration = 5)

\* C15 witness: the result for the two isolated tasks of 3 and 5 hours.
C15_Witness ==
    /\ tasks = Isolated.tasks
    /\ task_dependencies = {}
    /\ cpm.path = <<2>>
    /\ cpm.duration = 5

C17_CycleNeverReturns ==
    (/\ ~Acyclic(task_dependencies)
     /\ \E t \in DOMAIN tasks : Hours(t) # 0
     /\ \E t \in DOMAIN tasks : Deps(t) = {})
        => cpm = NoCpm

\* C18: update_task_position on a task id that is not in the store returns
\* None, update_board_column on a column id that is not in the store returns
\* None, delete_board_column on such an id returns False, and each leaves
\* every task and every column as it was.
C18_NotFound ==
    [][/\ \A t \in TaskIds \ DOMAIN tasks, c \in TargetColumns, p \in Positions :
             update_task_position(t, c, p)
                 => /\ last'.result = "None"
                    /\ tasks' = tasks /\ board_columns' = board_columns
       /\ \A c \in ColIds \ DOMAIN board_columns, o \in {Unset} \cup Orders :
             update_board_column(c, o)
                 => /\ last'.result = "None"
                    /\ tasks' = tasks /\ board_columns' = board_columns
       /\ \A c \in ColIds \ DOMAIN board_columns :
             delete_board_column(c)
                 => /\ last'.result = "False"
                    /\ tasks' = tasks /\ board_columns' = board_columns]_vars

\* C18 witness: a column id that is not in the store was deleted from a store
\* that has tasks and columns.
C18_Witness ==
    /\ last = Call("delete_board_column", "False")
    /\ DOMAIN tasks # {}
    /\ DOMAIN board_columns # {}

\* C19: when two sessions move different tasks into the same dense column,
\* each from another column, and each reads before the other commits, the
\* column ends with a duplicate or a skipped position.
C19_RaceBreaksColumn ==
    (/\ BothDone /\ Overlapped
     /\ Target(1) = Target(2)
     /\ \A s \in SessionIds : Source(s) # Target(s) /\ Source(s) # None)
        => ~Dense(Target(1))

\* C19 witness: both sessions committed after overlapping reads, and the
\* column both moved into holds two tasks at the same position.
C19_Witness ==
    /\ BothDone /\ Overlapped
    /\ Target(1) = Target(2)
    /\ \A s \in SessionIds : Source(s) # Target(s) /\ Source(s) # None
    /\ \E u, v \in TasksInColumn(Target(1)) :
          u # v /\ tasks[u].position = tasks[v].position

\* C20 as stated: two concurrent moves of different tasks whose target columns
\* differ end, in every interleaving, in the table of one of the two serial
\* executions.
C20_DisjointTargets ==
    (BothDone /\ Target(1) # Target(2)) => Serializable

\* C20 amended: two concurrent moves of different tasks whose target columns
\* differ, neither task starting in the other's target column, end in every
\* interleaving in the table of one of the two serial executions.
C20_DisjointColumns ==
    (/\ BothDone
     /\ Target(1) # Target(2)
     /\ Source(1) # Target(2) /\ Source(2) # Target(1))
        => Serializable

\* C20 witness: both sessions committed after overlapping reads, their
\* columns disjoint, and both tasks changed place.
C20_Witness ==
    /\ BothDone /\ Overlapped
    /\ Target(1) # Target(2)
    /\ Source(1) # Target(2) /\ Source(2) # Target(1)
    /\ \A s \in SessionIds :
          tasks[sessions[s].task_id] # sessions[s].start[sessions[s].task_id]

\* ------------------------------------------------------------ Gantt chart
\* The statuses a request can store: the four of the board and one more (the
\* status is a free string).
Statuses == {"to_do", "in_progress", "in_review", "done", "blocked"}

\* The table with the branches of in_progress and in_review exchanged.
ProgressSwapped(status) ==
    IF status = "done" THEN 100
    ELSE IF status = "in_progress" THEN 75
    ELSE IF status = "in_review" THEN 50
    ELSE IF status = "to_do" THEN 0
    ELSE None

\* The if/elif chain of get_project_gantt_chart: progress stays None when no
\* branch matches.
Progress(status) ==
    IF status = "done" THEN 100
    ELSE IF status = "in_progress" THEN 50
    ELSE IF status = "in_review" THEN 75
    ELSE IF status = "to_do" THEN 0
    ELSE None

update_task_status(task_id, status) ==
    /\ UNCHANGED <<board_columns, task_dependencies, cpm, sessions, gantt>>
    /\ IF task_id \notin DOMAIN tasks
       THEN /\ last' = Call("update_task_status", "None")
            /\ UNCHANGED tasks
       ELSE /\ tasks' = [tasks EXCEPT ![task_id].status = status]
            /\ last' = Call("update_task_status", "task")

\* One GanttTaskResponse: id, progress and the ids of task.dependencies in the
\* order `deps` in which they are loaded.
GanttTask(t, deps) ==
    LET IsDep(d) == d \in Deps(t)
    IN  [id |-> t, progress |-> Progress(tasks[t].status),
         dependencies |-> SelectSeq(deps, IsDep)]

\* get_gantt_chart_data returns the tasks of the project as `order`; the
\* endpoint appends one entry for each of them.
get_project_gantt_chart(project_id, order, deps) ==
    /\ gantt' = [i \in 1..Len(order) |-> GanttTask(order[i], deps)]
    /\ last' = Call("get_project_gantt_chart", project_id)
    /\ UNCHANGED <<tasks, board_columns, task_dependencies, cpm, sessions>>

UpdateStatus ==
    \E task_id \in TaskIds, status \in Statuses : update_task_status(task_id, status)

Gantt ==
    \E project_id \in Projects :
        \E order \in Perms(TasksOfProject(project_id)), deps \in DepOrders(DOMAIN tasks) :
            get_project_gantt_chart(project_id, order, deps)

\* Status updates and Gantt requests on two tasks of project "P", with any
\* dependencies between them, and with or without a third task in "Q".
InitGantt ==
    /\ \E ids \in {1..2, 1..3} :
          tasks = [t \in ids |-> Task(IF t = 3 THEN "Q" ELSE "P", None, None, None)]
    /\ task_dependencies \in SUBSET Edges(1..2)
    /\ board_columns = <<>>
    /\ last = Call("init", "None")
    /\ cpm = NoCpm
    /\ gantt = NoGantt
    /\ sessions = <<>>

NextGantt == UpdateStatus \/ Gantt

SpecGantt == InitGantt /\ [][NextGantt]_vars

\* The entries of the last Gantt response, as a set of indices.
GanttEntries == DOMAIN gantt

\* C21: right after a Gantt request for a project, the response holds exactly
\* one entry for each task of that project and no other entry, and the
\* progress of each entry follows the table done -> 100, in_review -> 75,
\* in_progress -> 50, to_do -> 0, any other status -> null.
C21_GanttProgress ==
    last.op = "get_project_gantt_chart" =>
        /\ \A t \in TasksOfProject(last.result) :
              Cardinality({i \in GanttEntries : gantt[i].id = t}) = 1
        /\ \A i \in GanttEntries :
              /\ gantt[i].id \in TasksOfProject(last.result)
              /\ LET status == tasks[gantt[i].id].status
                 IN  gantt[i].progress =
                        CASE status = "done" -> 100
                          [] status = "in_review" -> 75
                          [] status = "in_progress" -> 50
                          [] status = "to_do" -> 0
                          [] OTHER -> None

\* A response for "P" with two tasks, one in review and one with a status
\* outside the table, while the task of "Q" is done.
C21_Witness ==
    /\ last.op = "get_project_gantt_chart" /\ last.result = "P"
    /\ Len(gantt) = 2
    /\ \E i, j \in GanttEntries :
          /\ tasks[gantt[i].id].status = "in_review" /\ gantt[i].progress = 75
          /\ tasks[gantt[j].id].status = "blocked" /\ gantt[j].progress = None
    /\ \E t \in TasksOfProject("Q") : tasks[t].status = "done"

\* ------------------------------------------------------------ reference CPM
\* The earliest finish of task t by the definition of the forward pass:
\* duration plus the largest earliest finish of its dependencies (0 without
\* dependencies). Defined on acyclic graphs.
RECURSIVE RefEft(_)
RefEft(t) == Duration(t) + Max({0} \cup {RefEft(d) : d \in Deps(t)})

RefEst(t) == RefEft(t) - Duration(t)

\* The weight of the longest dependency chain.
RefCompletion == Max({0} \cup {RefEft(t) : t \in DOMAIN tasks})

\* The latest start of task t by the definition of the backward pass: the
\* smallest latest start of its dependents (the completion time without
\* dependents) minus its duration.
RECURSIVE RefLst(_)
RefLst(t) ==
    Min({RefCompletion} \cup {RefLst(u) : u \in Dependents(t, DOMAIN tasks)}) - Duration(t)

\* The tasks with positive duration and zero slack.
RefCritical == {t \in DOMAIN tasks : Duration(t) > 0 /\ RefLst(t) - RefEst(t) = 0}

\* C22: on every acyclic dependency graph, for every order of the rows, the
\* duration calculate_critical_path returns is the weight of the longest
\* dependency chain (the largest earliest finish, each earliest start being
\* the largest earliest finish of the predecessors).
C22_ForwardLongestChain ==
    (cpm # NoCpm /\ Acyclic(task_dependencies)) => cpm.duration = RefCompletion

\* C23: on every acyclic dependency graph, for every order of the rows, the
\* tasks of the returned path are exactly the tasks with positive duration
\* and zero slack.
C23_BackwardZeroSlack ==
    (cpm # NoCpm /\ Acyclic(task_dependencies))
        => {cpm.path[i] : i \in 1..Len(cpm.path)} = RefCritical

\* ------------------------------------------------------------ moves
\* C24: update_task_position of a task within its own column (named, or left
\* None) to a position below the number of tasks of the column gives the
\* moved task that position and keeps its column; the other tasks of the
\* column with target <= position < current (moving lower) get one more, those
\* with current < position <= target (moving higher) one less, and every
\* other task is unchanged.
C24_SameColumnMove ==
    [][\A t \in DOMAIN tasks :
          \A c \in {None, tasks[t].column_id}, target \in Positions :
              LET column == tasks[t].column_id
                  current == tasks[t].position
              IN  (/\ column # None /\ current # None
                   /\ target < Cardinality(TasksInColumn(column))
                   /\ update_task_position(t, c, target))
                      => /\ tasks'[t] = [tasks[t] EXCEPT !.position = target]
                         /\ \A u \in DOMAIN tasks \ {t} :
                               LET p == tasks[u].position
                               IN  tasks'[u] =
                                     IF u \in TasksInColumn(column) /\ target < current
                                        /\ target <= p /\ p < current
                                     THEN [tasks[u] EXCEPT !.position = p + 1]
                                     ELSE IF u \in TasksInColumn(column) /\ target > current
                                             /\ current < p /\ p <= target
                                     THEN [tasks[u] EXCEPT !.position = p - 1]
                                     ELSE tasks[u]]_vars

\* C25: update_task_position of a task to a column other than its own,
\* whether the task is in a column or in none, puts the task in that column
\* at the target position, and gives one more to every task of that column
\* whose position was at or above the target position.
C25_OtherColumnMove ==
    [][\A t \in DOMAIN tasks :
          \A c \in DOMAIN board_columns, target \in Positions :
              (/\ c # tasks[t].column_id
               /\ target < Cardinality(TasksInColumn(c))
               /\ update_task_position(t, c, target))
                  => /\ last'.result = "task"
                     /\ tasks'[t].column_id = c
                     /\ tasks'[t].position = target
                     /\ \A u \in TasksInColumn(c) :
                           tasks'[u].position =
                              IF tasks[u].position >= target
                              THEN tasks[u].position + 1
                              ELSE tasks[u].position]_vars

\* ------------------------------------------------------------ columns
\* Column updates on a board without tasks where every column id is in use
\* and the columns of each project were created in the order of their ids.
InitReorder ==
    /\ tasks = <<>>
    /\ board_columns \in {b \in EmptyBoards :
                            \A c, d \in ColIds :
                                (b[c].project_id = b[d].project_id /\ c < d)
                                    => b[c].order < b[d].order}
    /\ task_dependencies = {}
    /\ last = Call("init", "None")
    /\ cpm = NoCpm
    /\ gantt = NoGantt
    /\ sessions = <<>>

SpecReorder == InitReorder /\ [][UpdateColumn]_vars

\* C26: update_board_column of a column from the order old to another order
\* new sets that column's order to new; the other columns of its project get
\* one less when new > old and old < order <= new, one more when new < old and
\* new <= order < old; every other column, and every column of another
\* project, keeps its order.
C26_UpdateColumnShifts ==
    [][\A column \in DOMAIN board_columns, new \in Orders :
          LET old == board_columns[column].order
              project == board_columns[column].project_id
          IN  (new # old /\ update_board_column(column, new))
                  => /\ DOMAIN board_columns' = DOMAIN board_columns
                     /\ board_columns'[column] = [board_columns[column] EXCEPT !.order = new]
                     /\ \A c \in DOMAIN board_columns \ {column} :
                           LET o == board_columns[c].order
                           IN  board_columns'[c] =
                                 IF board_columns[c].project_id # project THEN board_columns[c]
                                 ELSE IF new > old /\ old < o /\ o <= new
                                 THEN [board_columns[c] EXCEPT !.order = o - 1]
                                 ELSE IF new < old /\ new <= o /\ o < old
                                 THEN [board_columns[c] EXCEPT !.order = o + 1]
                                 ELSE board_columns[c]]_vars

\* C26 witness: after a column update, columns 1 and 2 of one project hold
\* the orders 1 and 0, the reverse of the orders they started with, next to a
\* column of the other project at order 0.
C26_Witness ==
    /\ last = Call("update_board_column", "column")
    /\ {1, 2, 3} \subseteq DOMAIN board_columns
    /\ board_columns[1] = BoardColumn("P", 1)
    /\ board_columns[2] = BoardColumn("P", 0)
    /\ board_columns[3] = BoardColumn("Q", 0)

\* ------------------------------------------------------------ creation
\* C27: create_task without a position puts the task in the given column, or
\* in a lowest-order column of its project when none is given, at the
\* position equal to the number of tasks already in that column (0 in an
\* empty column).
C27_CreateAtEnd ==
    [][\A project_id \in TaskProjects, column_id \in TargetColumns :
          LET new == NewId(TaskIds, DOMAIN tasks)
          IN  (/\ column_id # None \/ ColumnsOfProject(project_id) # {}
               /\ create_task(project_id, column_id, None, None))
                  => /\ new \in DOMAIN tasks'
                     /\ IF column_id # None THEN tasks'[new].column_id = column_id
                        ELSE tasks'[new].column_id \in DefaultColumns(project_id, None)
                     /\ tasks'[new].position =
                            Cardinality(TasksInColumn(tasks'[new].column_id))]_vars

\* ------------------------------------------------------------ returned path
\* C28: in the path calculate_critical_path returns no task id appears twice,
\* and when one returned task is a direct dependency of another returned
\* task, the dependency comes first.
C28_PathOrdered ==
    cpm # NoCpm =>
        /\ \A i, j \in 1..Len(cpm.path) : cpm.path[i] = cpm.path[j] => i = j
        /\ \A i, j \in 1..Len(cpm.path) :
              cpm.path[i] \in Deps(cpm.path[j]) => i < j

\* C28 witness: a returned path of two tasks, the first a dependency of the
\* second.
C28_Witness ==
    /\ cpm # NoCpm
    /\ Len(cpm.path) = 2
    /\ cpm.path[1] \in Deps(cpm.path[2])

\* ------------------------------------------------------------ column endpoints
\* The status update_board_column_endpoint answers after update_board_column
\* returned `result` and left the table `columns`: 404 when no column came
\* back or the column is not of the project of the request.
UpdateColumnStatus(result, columns, project_id, column_id) ==
    IF result = "None" THEN 404
    ELSE IF columns[column_id].project_id # project_id THEN 404
    ELSE 200

\* The status delete_board_column_endpoint answers after delete_board_column
\* returned `result`: the project of the request is not compared with
\* anything.
DeleteColumnStatus(result, project_id) == IF result = "False" THEN 404 ELSE 204

\* PUT /projects/{project_id}/board/columns/{column_id}: the permissions of
\* project_id are checked, then update_board_column runs on column_id alone
\* and commits before the endpoint looks at the column's project.
update_board_column_endpoint(project_id, column_id, order) ==
    /\ project_id \in Projects
    /\ update_board_column(column_id, order)

\* DELETE /projects/{project_id}/board/columns/{column_id}: the permissions
\* of project_id are checked, then delete_board_column runs on column_id
\* alone.
delete_board_column_endpoint(project_id, column_id) ==
    /\ project_id \in Projects
    /\ delete_board_column(column_id)

UpdateColumnRequest ==
    \E project_id \in Projects, column_id \in ColIds, order \in {Unset} \cup Orders :
        update_board_column_endpoint(project_id, column_id, order)

DeleteColumnRequest ==
    \E project_id \in Projects, column_id \in ColIds :
        delete_board_column_endpoint(project_id, column_id)

\* Column requests on the boards with every column id in use, each column
\* holding one task of its project.
InitEndpoints ==
    /\ board_columns \in EmptyBoards
    /\ tasks = [c \in ColIds |-> Task(board_columns[c].project_id, c, 0, None)]
    /\ task_dependencies = {}
    /\ last = Call("init", "None")
    /\ cpm = NoCpm
    /\ gantt = NoGantt
    /\ sessions = <<>>

NextEndpoints == UpdateColumnRequest \/ DeleteColumnRequest

SpecEndpoints == InitEndpoints /\ [][NextEndpoints]_vars

\* C29: a column update or column delete request under a project for a
\* column of another project answers 404 and changes no column and no task.
C29_OtherProjectColumn ==
    [][\A project_id \in Projects, column_id \in DOMAIN board_columns :
          board_columns[column_id].project_id # project_id
              => /\ \A order \in {Unset} \cup Orders :
                       update_board_column_endpoint(project_id, column_id, order)
                           => /\ UpdateColumnStatus(last'.result, board_columns',
                                                    project_id, column_id) = 404
                              /\ board_columns' = board_columns
                              /\ tasks' = tasks
                 /\ delete_board_column_endpoint(project_id, column_id)
                       => /\ DeleteColumnStatus(last'.result, project_id) = 404
                          /\ board_columns' = board_columns
                          /\ tasks' = tasks]_vars

\* ------------------------------------------------------------ column references
\* C30: every task is in no column, or in a column of the store that belongs
\* to the task's own project.
C30_ColumnOfOwnProject ==
    \A t \in DOMAIN tasks :
        \/ tasks[t].column_id = None
        \/ /\ tasks[t].column_id \in DOMAIN board_columns
           /\ board_columns[tasks[t].column_id].project_id = tasks[t].project_id

====
